---- MODULE Spec2Model ----
(***************************************************************************)
(* KineticUpdater (kinetic_swift/obj/updater.py): the sweeper that scans   *)
(* the async_pending queue of every device, delivers each pending update   *)
(* to the container replicas that have not acknowledged it yet, and        *)
(* deletes or re-saves the queue entry.                                    *)
(*                                                                         *)
(* External collaborators are modelled by what the updater sees of them:   *)
(*   - the kinetic connection: get / put / delete / iterKeyRange on one    *)
(*     key space per device; any of them may raise;                        *)
(*   - msgpack: a blob either unpacks to the update mapping or raises;     *)
(*   - the container ring: get_nodes returns an ordered list of nodes      *)
(*     with distinct ids;                                                  *)
(*   - ObjectUpdater.object_update: returns (acknowledged, node_id) and    *)
(*     never raises.                                                       *)
(***************************************************************************)
EXTENDS Integers, Sequences, FiniteSets, TLC

(* ------------------------------ bounds -------------------------------- *)

\* keys of the async_pending range of one device: 1..MaxKeys, in scan order;
\* also the number of entries queued, over all devices, at the start
MaxKeys == 2

\* full sweeps (run_once passes) of one run of the daemon
MaxSweeps == 2

\* direct calls of process_object_update made by the call harness
MaxCalls == 3

\* self.interval, in ticks of the clock
Interval == 2

(* ------------------------- the environment --------------------------- *)

\* the devices run_once iterates, in the order of the iteration
DeviceList == <<"A", "B", "C">>

Range(s) == {s[i] : i \in 1..Len(s)}

Devices == Range(DeviceList)

Keys == 1..MaxKeys

\* the node lists the container ring can answer with: ids are distinct
\* within one list, and the order is the ring's, not the ids'
Rings == {<<2, 1, 3>>, <<3, 4>>}

\* a two-replica ring, for the runs of the whole daemon
SmallRing == <<2, 1>>

\* the three-replica ring of the termination runs
ReplicaRing == <<2, 1, 3>>

(* ---------------------------- queue blobs ---------------------------- *)

\* conn.get(key).wait() of a key that is not stored
NoEntry == [kind |-> "none"]

\* a stored value msgpack.unpackb raises on
CorruptBlob == [kind |-> "corrupt"]

\* the header keys of a queued update, as the writer spelled them
QueuedHeaders == {"user-agent", "x-timestamp"}

\* a stored update as the object server queued it: no 'successes' key yet
NewUpdate ==
    [kind |-> "update", has_successes |-> FALSE, successes |-> <<>>,
     path |-> "a/c/o", op |-> "PUT", headers |-> QueuedHeaders]

\* an update an earlier run of the updater saved after node 3 acknowledged
PartialUpdate ==
    [kind |-> "update", has_successes |-> TRUE, successes |-> <<3>>,
     path |-> "a/c/o", op |-> "PUT", headers |-> QueuedHeaders]

\* the key user-agent in the cases it is met in
UserAgentKeys == {"user-agent", "User-Agent", "USER-AGENT"}

\* str.title() on a header key
Title(key) == IF key \in UserAgentKeys THEN "User-Agent" ELSE "X-Timestamp"

\* HeaderKeyDict(update['headers']): a new mapping, every key title-cased
HeaderKeyDict(headers) == {Title(key) : key \in headers}

\* queued updates whose headers are spelled in other ways, or that carry no
\* user-agent at all, and a queued DELETE
HeaderVariants ==
    {[NewUpdate EXCEPT !.headers = h, !.op = o] :
        h \in {{"User-Agent", "x-timestamp"}, {"USER-AGENT"}, {"x-timestamp"},
               {"user-agent", "User-Agent"}},
        o \in {"PUT", "DELETE"}}

Present(blob) == blob.kind # "none"

VARIABLES
    store,      \* store[d][k]: the blob under key k of device d's async_pending range
    ring,       \* what get_container_ring().get_nodes(account, container) answers now
    stats,      \* self.stats of the running run_once
    counters,   \* self.successes, self.failures
    sw,         \* run_forever / run_once / object_sweep: position, loop state, and
                \* the log of the sweep: each device's outcome, the entries processed
    call,       \* the frame of the latest process_object_update call
    harness,    \* the direct caller: calls made, and what the call before was
    workers     \* two threads that call process_object_update for one key: the
                \* position and frame of each, and the log of what the nodes
                \* acknowledged to either

vars == <<store, ring, stats, counters, sw, call, harness, workers>>

(* ------------------------------ state -------------------------------- *)

\* self.stats = defaultdict(int)
ZeroStats ==
    [found_updates |-> 0, success |-> 0, failures |-> 0,
     device_success |-> 0, device_failures |-> 0]

\* no process_object_update call has been made since the frame was dropped
NoCall ==
    [caller |-> "none", device |-> "A", key |-> 0,
     update |-> NoEntry, headers |-> {}, successes |-> <<>>, nodes |-> <<>>,
     success |-> TRUE, new_successes |-> FALSE,
     loaded |-> <<>>, attempts |-> <<>>, acks |-> {},
     qop |-> "none", ret |-> "none"]

\* run_once has not come to the device yet
NoOutcome == [d \in Devices |-> "none"]

NumEntries(st) == Cardinality({dk \in Devices \X Keys : Present(st[dk[1]][dk[2]])})

\* key names are the writer's: the keys of a device are numbered as stored
Packed(q) == \A k \in Keys : Present(q[k]) => \A j \in 1..k : Present(q[j])

\* the queues the updater can find when it starts: on the devices devs, blobs
\* out of blobs, at most max of them in all
Queues(devs, blobs, max) ==
    LET DeviceQueues ==
            {q \in [Keys -> blobs \cup {NoEntry}] :
                Packed(q) /\ Cardinality({k \in Keys : Present(q[k])}) <= max}
        Placements ==
            {[d \in Devices |-> IF d \in devs THEN qs[d] ELSE [k \in Keys |-> NoEntry]] :
                qs \in [devs -> DeviceQueues]} IN
    {st \in Placements : NumEntries(st) <= max}

\* the two threads; the entry they call process_object_update for
Workers == {1, 2}

WorkerDevice == "A"

WorkerKey == 1

\* no thread has called yet; serial tells whether the calls for one key are
\* serialized, queued is the successes list of the entry as it was queued
IdleWorkers(serial, st) ==
    [serial |-> serial,
     pc |-> [w \in Workers |-> "idle"],
     frame |-> [w \in Workers |-> NoCall],
     calls |-> [w \in Workers |-> 0],
     queued |-> IF st[WorkerDevice][WorkerKey].kind = "update"
                THEN Range(st[WorkerDevice][WorkerKey].successes) ELSE {},
     acked |-> {},
     deleted |-> FALSE]

\* the updater is constructed; nothing has run yet
StartWith(queues, rings, serial) ==
    /\ store \in queues
    /\ workers \in {IdleWorkers(b, store) : b \in serial}
    /\ ring \in rings
    /\ stats = ZeroStats
    /\ counters = [successes |-> 0, failures |-> 0]
    /\ sw = [pc |-> "sleep", n |-> 0, next |-> 1, device |-> "A", cursor |-> 0,
             outcome |-> NoOutcome, invoked |-> {},
             clock |-> 0, elapsed |-> 0, gap |-> 0]
    /\ call = NoCall
    /\ harness = [n |-> 0, prev |-> [key |-> 0, ret |-> "none"]]

Start(queues, rings) == StartWith(queues, rings, {TRUE})

Init == Start(Queues(Devices, {CorruptBlob, NewUpdate}, MaxKeys), {SmallRing})

(* ----------------------- process_object_update ----------------------- *)

\* Visit without the `not in successes` test: every node is asked
VisitUnguarded(c, id, ok) ==
    IF ok
    THEN [c EXCEPT !.attempts = Append(@, id),
                   !.successes = IF id \in Range(@) THEN @ ELSE Append(@, id),
                   !.new_successes = TRUE]
    ELSE [c EXCEPT !.attempts = Append(@, id),
                   !.success = FALSE]

\* Visit that records the node before it looks at the answer
VisitOptimistic(c, id, ok) ==
    IF id \in Range(c.successes)
    THEN c
    ELSE IF ok
         THEN [c EXCEPT !.attempts = Append(@, id),
                        !.successes = Append(@, id),
                        !.new_successes = TRUE]
         ELSE [c EXCEPT !.attempts = Append(@, id),
                        !.successes = Append(@, id),
                        !.success = FALSE]

\* the body of `for node in nodes` for the node with this id; ok is what
\* object_update answers when it is asked
Visit(c, id, ok) ==
    IF id \in Range(c.successes)
    THEN c
    ELSE IF ok
         THEN [c EXCEPT !.attempts = Append(@, id),
                        !.successes = Append(@, id),
                        !.new_successes = TRUE]
         ELSE [c EXCEPT !.attempts = Append(@, id),
                        !.success = FALSE]

\* NodeLoop with a break after the first delivery that fails
RECURSIVE NodeLoopBreaking(_, _, _)
NodeLoopBreaking(c, nodes, acks) ==
    IF nodes = <<>> \/ ~c.success
    THEN [c EXCEPT !.acks = acks \cap Range(c.attempts)]
    ELSE NodeLoopBreaking(Visit(c, Head(nodes), Head(nodes) \in acks),
                          Tail(nodes), acks)

\* `for node in nodes` over the nodes not visited yet; acks are the ids of
\* the nodes that acknowledge a delivery made to them during this call
RECURSIVE NodeLoop(_, _, _)
NodeLoop(c, nodes, acks) ==
    IF nodes = <<>>
    THEN [c EXCEPT !.acks = acks]
    ELSE NodeLoop(Visit(c, Head(nodes), Head(nodes) \in acks), Tail(nodes), acks)

\* `del headers['user-agent']` raises KeyError: no key of the update is
\* user-agent in any case
NoUserAgent(blob) == Title("user-agent") \notin HeaderKeyDict(blob.headers)

\* DeliveryHeaders without the del
DeliveryHeadersKept(blob) == HeaderKeyDict(blob.headers)

\* headers, the mapping every object_update of the call is given
DeliveryHeaders(blob) == HeaderKeyDict(blob.headers) \ {Title("user-agent")}

\* Loaded with `successes = []` in place of update.get('successes', [])
LoadedFromScratch(c, blob, nodes) ==
    [c EXCEPT !.update = blob,
              !.headers = DeliveryHeaders(blob),
              !.successes = <<>>,
              !.loaded = <<>>,
              !.nodes = nodes,
              !.success = TRUE, !.new_successes = FALSE]

\* the frame when the node loop starts: the update is loaded, the ring asked
Loaded(c, blob, nodes) ==
    [c EXCEPT !.update = blob,
              !.headers = DeliveryHeaders(blob),
              !.successes = blob.successes,
              !.loaded = blob.successes,
              !.nodes = nodes,
              !.success = TRUE, !.new_successes = FALSE]

\* Saved with a list of this call's acknowledgments only
SavedNewOnly(c) ==
    [c.update EXCEPT !.has_successes = TRUE,
                     !.successes = SelectSeq(c.successes,
                                             LAMBDA id : id \notin Range(c.loaded))]

\* Saved with the ids of nodes the ring no longer returns purged
SavedPurged(c) ==
    [c.update EXCEPT !.has_successes = TRUE,
                     !.successes = SelectSeq(c.successes,
                                             LAMBDA id : id \in Range(c.nodes))]

\* Saved with the headers of the delivery written into the update
SavedDelivered(c) ==
    [c.update EXCEPT !.has_successes = TRUE, !.successes = c.successes,
                     !.headers = c.headers]

\* update['successes'] = successes, as _save_update packs it
Saved(c) == [c.update EXCEPT !.has_successes = TRUE, !.successes = c.successes]

\* QueueOp with a save on every failure, new acknowledgment or not
QueueOpAlwaysSave(c) == IF c.success THEN "delete" ELSE "put"

\* the queue operation the lines after the node loop issue
QueueOp(c) ==
    IF c.success THEN "delete"
    ELSE IF c.new_successes THEN "put"
    ELSE "none"

\* Result of a call that reports any new acknowledgment as success
ResultAnyNew(c) == IF c.success \/ c.new_successes THEN "true" ELSE "false"

\* what the call returns when nothing raises
Result(c) == IF c.success THEN "true" ELSE "false"

\* the frame at the end of the call; fault is where the kinetic connection
\* raises: "get" in _load_update, "write" in _unlink_update or _save_update
Outcome(c0, blob, nodes, acks, fault) ==
    IF fault = "get" \/ blob.kind # "update"
    THEN [c0 EXCEPT !.ret = "raised"]
    ELSE IF NoUserAgent(blob)
    THEN [c0 EXCEPT !.ret = "raised"]
    ELSE LET c == NodeLoop(Loaded(c0, blob, nodes), nodes, acks) IN
         IF fault = "write" /\ QueueOp(c) # "none"
         THEN [c EXCEPT !.ret = "raised"]
         ELSE [c EXCEPT !.qop = QueueOp(c), !.ret = Result(c)]

\* StoreAfter of an unlink that is not issued
StoreAfterNoUnlink(c) ==
    IF c.qop = "put" THEN [store EXCEPT ![c.device][c.key] = Saved(c)]
    ELSE store

\* StoreAfter of a queue that drops the entry when a write to it fails
StoreAfterLostOnRaise(c) ==
    IF c.qop = "delete" \/ (c.ret = "raised" /\ c.update.kind = "update")
    THEN [store EXCEPT ![c.device][c.key] = NoEntry]
    ELSE IF c.qop = "put" THEN [store EXCEPT ![c.device][c.key] = Saved(c)]
    ELSE store

\* the queue of the device after the call
StoreAfter(c) ==
    IF c.qop = "delete" THEN [store EXCEPT ![c.device][c.key] = NoEntry]
    ELSE IF c.qop = "put" THEN [store EXCEPT ![c.device][c.key] = Saved(c)]
    ELSE store

\* the counters nothing resets are capped where the sweeps are not
CounterCap == (MaxSweeps + 1) * MaxKeys

Bump(x) == IF x < CounterCap THEN x + 1 ELSE x

\* self.successes += 1 / self.failures += 1: reached when the node loop ended
CountersAfter(c) ==
    IF c.update.kind # "update" THEN counters
    ELSE IF c.success THEN [counters EXCEPT !.successes = Bump(@)]
    ELSE [counters EXCEPT !.failures = Bump(@)]

Faults == {"none", "get", "write"}

\* process_object_update(device, key), called by caller; the answers acks
\* are those of the nodes that are asked, a write fault needs a write
Process(caller, d, k, acks, fault) ==
    LET c == Outcome([NoCall EXCEPT !.caller = caller, !.device = d, !.key = k],
                     store[d][k], ring, acks, fault) IN
    /\ fault = "write" => c.ret = "raised"
    /\ acks \subseteq Range(c.attempts)
    /\ call' = c
    /\ store' = StoreAfter(c)
    /\ counters' = CountersAfter(c)
    /\ UNCHANGED ring

(* --------------------------- run_forever ----------------------------- *)

\* SleepTime of a loop that sleeps a whole interval after every sweep
SleepTimeWholeInterval(elapsed) == Interval

\* `if elapsed < self.interval: time.sleep(self.interval - elapsed)`
SleepTime(elapsed) == IF elapsed < Interval THEN Interval - elapsed ELSE 0

\* a sweep is followed for one tick more than the interval
MaxElapsed == Interval + 1

\* run_forever's loop body up to run_once's first lines: a new full sweep;
\* limit bounds the sweeps of a run, 0 for a daemon that never stops.
\* sw.clock is time.time() - begin, sw.gap what it was when begin was taken
BeginSweep(limit) ==
    /\ sw.pc = "sleep"
    /\ limit > 0 => sw.n < limit
    /\ stats' = ZeroStats
    /\ sw' = [sw EXCEPT !.pc = "run_once",
                        !.n = IF limit > 0 \/ sw.n < MaxSweeps THEN sw.n + 1 ELSE sw.n,
                        !.next = 1, !.device = "A", !.cursor = 0,
                        !.outcome = NoOutcome, !.invoked = {},
                        !.gap = sw.clock, !.clock = 0]
    /\ call' = NoCall
    /\ UNCHANGED <<store, ring, counters, harness, workers>>

\* run_once has visited every device; run_forever sleeps the remainder
EndSweep ==
    /\ sw.pc = "run_once"
    /\ sw.next > Len(DeviceList)
    /\ sw' = [sw EXCEPT !.pc = "sleep", !.device = "A", !.cursor = 0,
                        !.elapsed = sw.clock,
                        !.clock = sw.clock + SleepTime(sw.clock)]
    /\ call' = NoCall
    /\ UNCHANGED <<store, ring, stats, counters, harness, workers>>

\* time passes while run_once is at work
Tick ==
    /\ sw.pc \in {"run_once", "object_sweep"}
    /\ sw.clock < MaxElapsed
    /\ sw' = [sw EXCEPT !.clock = @ + 1]
    /\ UNCHANGED <<store, ring, stats, counters, call, harness, workers>>

(* ----------------------------- run_once ------------------------------ *)

\* the next device of the loop; get_connection raises
\* DiskFileDeviceUnavailable when its range scan starts
SweepUnavailable ==
    /\ sw.pc = "run_once"
    /\ sw.next <= Len(DeviceList)
    /\ stats' = [stats EXCEPT !.device_failures = @ + 1]
    /\ sw' = [sw EXCEPT !.next = @ + 1, !.device = DeviceList[sw.next],
                        !.cursor = 0,
                        !.outcome[DeviceList[sw.next]] = "unavailable"]
    /\ call' = NoCall
    /\ UNCHANGED <<store, ring, counters, harness, workers>>

\* the next device of the loop: object_sweep(device) starts its range scan
StartObjectSweep ==
    /\ sw.pc = "run_once"
    /\ sw.next <= Len(DeviceList)
    /\ sw' = [sw EXCEPT !.pc = "object_sweep", !.next = @ + 1,
                        !.device = DeviceList[sw.next],
                        !.cursor = 0]
    /\ call' = NoCall
    /\ UNCHANGED <<store, ring, stats, counters, harness, workers>>

(* ---------------------------- object_sweep --------------------------- *)

\* iterKeyRange: the stored keys after the cursor, in key order
KeysAfter(d, cursor) == {k \in Keys : k > cursor /\ Present(store[d][k])}

NextKey(d, cursor) ==
    CHOOSE k \in KeysAfter(d, cursor) : \A j \in KeysAfter(d, cursor) : k <= j

\* Escapes in an object_sweep that swallows what a call raises
EscapesNever(c) == FALSE

\* the exception of a call leaves object_sweep, which catches nothing, and
\* reaches run_once's handlers: the device has failed
Escapes(c) == c.ret = "raised"

\* AfterCall in a run_once without the try: the exception ends the sweep
AfterCallUncaught(c, k) ==
    IF Escapes(c)
    THEN /\ stats' = [stats EXCEPT !.found_updates = @ + 1]
         /\ sw' = [sw EXCEPT !.pc = "sleep", !.cursor = k,
                             !.outcome[sw.device] = "exception",
                             !.invoked = @ \cup {<<sw.device, k>>}]
    ELSE /\ stats' = IF c.ret = "true"
                     THEN [stats EXCEPT !.found_updates = @ + 1, !.success = @ + 1]
                     ELSE [stats EXCEPT !.found_updates = @ + 1, !.failures = @ + 1]
         /\ sw' = [sw EXCEPT !.cursor = k,
                             !.invoked = @ \cup {<<sw.device, k>>}]

\* what the rest of the loop body, and run_once, do with the call's result
AfterCall(c, k) ==
    IF Escapes(c)
    THEN /\ stats' = [stats EXCEPT !.found_updates = @ + 1,
                                   !.device_failures = @ + 1]
         /\ sw' = [sw EXCEPT !.pc = "run_once", !.cursor = k,
                             !.outcome[sw.device] = "exception",
                             !.invoked = @ \cup {<<sw.device, k>>}]
    ELSE /\ stats' = IF c.ret = "true"
                     THEN [stats EXCEPT !.found_updates = @ + 1, !.success = @ + 1]
                     ELSE [stats EXCEPT !.found_updates = @ + 1, !.failures = @ + 1]
         /\ sw' = [sw EXCEPT !.cursor = k,
                             !.invoked = @ \cup {<<sw.device, k>>}]

\* one iteration of `for update_entry in self._find_updates_entries(device)`
SweepEntry(acks, fault) ==
    /\ sw.pc = "object_sweep"
    /\ KeysAfter(sw.device, sw.cursor) # {}
    /\ LET k == NextKey(sw.device, sw.cursor) IN
        /\ Process("sweep", sw.device, k, acks, fault)
        /\ AfterCall(call', k)
    /\ UNCHANGED <<harness, workers>>

\* the scan is exhausted: object_sweep returns, run_once counts the device
EndObjectSweep ==
    /\ sw.pc = "object_sweep"
    /\ KeysAfter(sw.device, sw.cursor) = {}
    /\ stats' = [stats EXCEPT !.device_success = @ + 1]
    /\ sw' = [sw EXCEPT !.pc = "run_once", !.outcome[sw.device] = "ok"]
    /\ call' = NoCall
    /\ UNCHANGED <<store, ring, counters, harness, workers>>

(* -------------------------- the environment -------------------------- *)

\* the ring is reloaded with another node list
RingChange ==
    /\ \E r \in Rings \ {ring} : ring' = r
    /\ UNCHANGED <<store, stats, counters, sw, call, harness, workers>>

\* process_object_update(d, k) called directly, as a test does
DirectCall(d, k, acks, fault) ==
    /\ harness.n < MaxCalls
    /\ Process("direct", d, k, acks, fault)
    /\ harness' = [n |-> harness.n + 1, prev |-> [key |-> call.key, ret |-> call.ret]]
    /\ UNCHANGED <<stats, sw, workers>>

(* ------------------- two threads, one entry key ---------------------- *)

\* thread w enters process_object_update for the entry and runs it up to the
\* node loop: _load_update, the headers, the ring; an entry that is gone or
\* has no user-agent raises. With serialized calls it waits for the other
\* thread to be out of its call.
WorkerLoad(w) ==
    LET blob == store[WorkerDevice][WorkerKey]
        c0 == [NoCall EXCEPT !.caller = "worker", !.device = WorkerDevice,
                             !.key = WorkerKey] IN
    /\ workers.pc[w] = "idle"
    /\ workers.calls[w] < MaxCalls - 1
    /\ workers.serial => \A v \in Workers : workers.pc[v] = "idle"
    /\ workers' =
         IF blob.kind # "update" \/ NoUserAgent(blob)
         THEN [workers EXCEPT !.calls[w] = @ + 1,
                              !.frame[w] = [c0 EXCEPT !.ret = "raised"]]
         ELSE [workers EXCEPT !.calls[w] = @ + 1,
                              !.pc[w] = "loaded",
                              !.frame[w] = Loaded(c0, blob, ring)]
    /\ UNCHANGED <<store, ring, stats, counters, sw, call, harness>>

\* thread w runs its node loop; the nodes in acks acknowledge
WorkerDeliver(w, acks) ==
    LET c == NodeLoop(workers.frame[w], workers.frame[w].nodes, acks) IN
    /\ workers.pc[w] = "loaded"
    /\ acks \subseteq Range(c.attempts)
    /\ workers' = [workers EXCEPT !.pc[w] = "delivered",
                                  !.frame[w] = c,
                                  !.acked = @ \cup acks]
    /\ UNCHANGED <<store, ring, stats, counters, sw, call, harness>>

\* thread w runs the lines after the node loop and returns
WorkerFinish(w) ==
    LET c == [workers.frame[w] EXCEPT !.qop = QueueOp(workers.frame[w]),
                                      !.ret = Result(workers.frame[w])] IN
    /\ workers.pc[w] = "delivered"
    /\ store' = StoreAfter(c)
    /\ counters' = CountersAfter(c)
    /\ workers' = [workers EXCEPT !.pc[w] = "idle",
                                  !.frame[w] = c,
                                  !.deleted = @ \/ c.qop = "delete"]
    /\ UNCHANGED <<ring, stats, sw, call, harness>>

(* --------------------------- specifications -------------------------- *)

\* the daemon: run_forever over the devices, any delivery outcome, any fault
Next ==
    \/ BeginSweep(MaxSweeps)
    \/ EndSweep
    \/ SweepUnavailable
    \/ StartObjectSweep
    \/ \E acks \in SUBSET Range(ring), fault \in Faults : SweepEntry(acks, fault)
    \/ EndObjectSweep

Spec == Init /\ [][Next]_vars

\* process_object_update alone: any key of one device, stored or not, any
\* ring, any delivery outcome, any fault, call after call
CallInit == Start(Queues({"A"}, {CorruptBlob, NewUpdate}, 2), Rings)

CallNext ==
    \/ \E k \in Keys, acks \in SUBSET Range(ring), fault \in Faults :
            DirectCall("A", k, acks, fault)
    \/ RingChange

CallSpec == CallInit /\ [][CallNext]_vars

\* every node that is asked acknowledges
AlwaysAck == call'.acks = Range(call'.attempts)

\* process_object_update alone, with a Delivery Client that always
\* acknowledges and a queue that never fails
AckInit == Start(Queues({"A"}, {CorruptBlob, NewUpdate, PartialUpdate}, 2), Rings)

AckNext ==
    \/ \E k \in Keys, acks \in SUBSET Range(ring) :
            DirectCall("A", k, acks, "none") /\ AlwaysAck
    \/ RingChange

AckSpec == AckInit /\ [][AckNext]_vars

\* the daemon on a stable three-replica ring, with decodable entries, devices
\* that are reachable and a queue that never fails, when every call gets at
\* least one new acknowledgment
ProgressInit == Start(Queues(Devices, {NewUpdate}, MaxKeys), {ReplicaRing})

ProgressNext ==
    \/ BeginSweep(MaxSweeps + 1)
    \/ EndSweep
    \/ StartObjectSweep
    \/ \E acks \in SUBSET Range(ring) \ {{}} : SweepEntry(acks, "none")
    \/ EndObjectSweep

ProgressSpec == ProgressInit /\ [][ProgressNext]_vars

\* the daemon that never stops, on reachable devices and a queue that never
\* fails, with the pending entries on device B; the sweep loop keeps running,
\* and a delivery that is attempted again and again is acknowledged in the end
FairInit == Start(Queues({"B"}, {CorruptBlob, NewUpdate}, MaxKeys), {SmallRing})

FairNext ==
    \/ BeginSweep(0)
    \/ EndSweep
    \/ StartObjectSweep
    \/ \E acks \in SUBSET Range(ring) : SweepEntry(acks, "none")
    \/ EndObjectSweep

\* the call for key k of device B in which every node asked acknowledges
Delivered(k) ==
    /\ \E acks \in SUBSET Range(ring) : SweepEntry(acks, "none")
    /\ call'.device = "B"
    /\ call'.key = k
    /\ AlwaysAck

FairSpec ==
    /\ FairInit
    /\ [][FairNext]_vars
    /\ WF_vars(FairNext)
    /\ \A k \in Keys : SF_vars(Delivered(k))

\* process_object_update alone on updates whose headers are spelled in
\* every way, with a queue that never fails
HeaderInit == Start(Queues({"A"}, HeaderVariants \cup {NewUpdate}, 2), {SmallRing})

HeaderNext ==
    \E k \in Keys, acks \in SUBSET Range(ring) : DirectCall("A", k, acks, "none")

HeaderSpec == HeaderInit /\ [][HeaderNext]_vars

\* two threads calling process_object_update for the same entry, with
\* their calls serialized or not, on a queue that never fails
RaceInit ==
    StartWith(Queues({WorkerDevice}, {NewUpdate, PartialUpdate}, 1), Rings, BOOLEAN)

RaceNext ==
    \/ \E w \in Workers : WorkerLoad(w)
    \/ \E w \in Workers, acks \in SUBSET Range(ring) : WorkerDeliver(w, acks)
    \/ \E w \in Workers : WorkerFinish(w)

RaceSpec == RaceInit /\ [][RaceNext]_vars

\* the daemon with a clock: sweeps that take any time up to MaxElapsed, over
\* devices that may be unreachable and entries that may not decode
TimedInit == Start(Queues(Devices, {CorruptBlob, NewUpdate}, 1), {SmallRing})

TimedNext ==
    \/ BeginSweep(MaxSweeps + 1)
    \/ EndSweep
    \/ SweepUnavailable
    \/ StartObjectSweep
    \/ \E acks \in SUBSET Range(ring) : SweepEntry(acks, "none")
    \/ EndObjectSweep
    \/ Tick

TimedSpec == TimedInit /\ [][TimedNext]_vars

(* ------------------------------ claims ------------------------------- *)

\* a step that is one whole process_object_update call
CallStep ==
    \/ harness'.n # harness.n
    \/ sw.pc = "object_sweep" /\ sw'.cursor # sw.cursor

\* the latest call got its entry loaded, so its node loop has run
LoadedCall == call.caller # "none" /\ call.update.kind = "update"

\* what is stored under the key of the latest call
Stored == store[call.device][call.key]

\* at the end of the node loop every resolved node id is in successes
AllAcked == Range(call.nodes) \subseteq Range(call.successes)

\* the ids acknowledged during the latest call, in the order of the ring
NewlyAcked == SelectSeq(call.nodes, LAMBDA id : id \in call.acks)

\* C1: a call that loaded its entry and whose queue operation did not raise
\* has deleted the entry and returned true exactly when every resolved node
\* id is in successes at the end of the node loop; in every other case it has
\* returned false and the entry is still queued. (A queue operation that
\* raises returns nothing and leaves the entry queued.)
C1_DeleteIffAllAcked ==
    LoadedCall =>
        /\ call.ret # "raised" =>
            /\ (call.ret = "true" /\ Stored = NoEntry) <=> AllAcked
            /\ ~AllAcked => (call.ret = "false" /\ Stored.kind = "update")
        /\ call.ret = "raised" => Stored = call.update

C1_Witness ==
    /\ LoadedCall
    /\ call.ret = "true"
    /\ call.loaded # <<>>
    /\ call.attempts # <<>>
    /\ Stored = NoEntry

\* C2: whatever step is taken, as long as an entry exists under a key the
\* successes stored under that key after the step hold every id stored
\* before it.
C2_SuccessesNeverShrink ==
    [][\A d \in Devices, k \in Keys :
        (store[d][k].kind = "update" /\ store'[d][k].kind = "update")
            => Range(store[d][k].successes) \subseteq Range(store'[d][k].successes)]_vars

C2_Witness ==
    /\ LoadedCall
    /\ call.qop = "put"
    /\ call.loaded # <<>>
    /\ Len(Stored.successes) > Len(call.loaded)

\* C3: no call passes to object_update a node whose id was in the successes
\* stored for the entry when the call started.
C3_NoRecontact ==
    [][CallStep =>
        LET before == store[call'.device][call'.key] IN
        before.kind = "update"
            => Range(call'.attempts) \cap Range(before.successes) = {}]_vars

C3_Witness ==
    /\ LoadedCall
    /\ Range(call.nodes) \cap Range(call.loaded) # {}
    /\ call.attempts # <<>>

\* C4: a call that returned false has, when a delivery was newly acknowledged,
\* written the entry back under its key with successes = the loaded list
\* followed by the newly acknowledged ids in ring order; when none was, it has
\* issued no put and no delete and the stored entry is the one it loaded.
C4_SaveOnlyNewProgress ==
    (LoadedCall /\ call.ret = "false") =>
        IF NewlyAcked # <<>>
        THEN /\ call.qop = "put"
             /\ Stored.kind = "update"
             /\ Stored.successes = call.loaded \o NewlyAcked
        ELSE /\ call.qop = "none"
             /\ Stored = call.update

C4_Witness ==
    /\ LoadedCall
    /\ call.ret = "false"
    /\ call.loaded # <<>>
    /\ Len(NewlyAcked) >= 1
    /\ Stored.successes = call.loaded \o NewlyAcked

\* C5: in a call whose node loop ran, the delivery attempts are exactly the
\* resolved nodes whose id was not in successes, each once and in ring order,
\* whatever the attempts before them answered.
C5_EveryPendingNodeTriedOnce ==
    LoadedCall =>
        call.attempts = SelectSeq(call.nodes, LAMBDA id : id \notin Range(call.loaded))

C5_Witness ==
    /\ LoadedCall
    /\ Len(call.attempts) = 3
    /\ call.attempts[1] \notin call.acks
    /\ call.attempts[3] \in call.acks

\* C6: with a Delivery Client that always acknowledges, a direct call that
\* finds its entry deletes it and returns true, and the call made for the same
\* key right after finds nothing stored: it raises before any delivery
\* attempt and before any queue write.
C6_SecondCallFindsNothing ==
    call.caller = "direct" =>
        /\ LoadedCall => (call.ret = "true" /\ Stored = NoEntry)
        /\ (harness.prev.key = call.key /\ harness.prev.ret = "true") =>
            /\ call.ret = "raised"
            /\ call.update = NoEntry
            /\ call.attempts = <<>>
            /\ call.qop = "none"
            /\ Stored = NoEntry

C6_Witness ==
    /\ call.caller = "direct"
    /\ harness.prev.key = call.key
    /\ harness.prev.ret = "true"
    /\ call.ret = "raised"

\* the devices whose sweep raised in this run_once, and those it returned from
FailedDevices == {d \in Devices : sw.outcome[d] \in {"unavailable", "exception"}}

SweptDevices == {d \in Devices : sw.outcome[d] = "ok"}

\* C7: in a run_once every device whose sweep raised, unreachable or any
\* other exception, is counted once in device.failures, every device whose
\* sweep returned once in device.success and has had all its entries
\* processed, and the run ends only when every device has been visited.
C7_FailedDeviceCountedSweepGoesOn ==
    /\ stats.device_failures = Cardinality(FailedDevices)
    /\ stats.device_success = Cardinality(SweptDevices)
    /\ (sw.pc = "sleep" /\ sw.n > 0) => \A d \in Devices : sw.outcome[d] # "none"
    /\ \A d \in SweptDevices, k \in Keys :
            Present(store[d][k]) => <<d, k>> \in sw.invoked

C7_Witness ==
    /\ sw.pc = "sleep"
    /\ sw.outcome = [d \in Devices |->
                        IF d = "A" THEN "unavailable"
                        ELSE IF d = "B" THEN "ok" ELSE "exception"]
    /\ store["C"][1] = CorruptBlob
    /\ <<"B", 1>> \in sw.invoked
    /\ stats.device_failures = 2
    /\ stats.device_success = 1

\* the sweeps that have processed the entry under key k of device d
SweepsOver(d, k) == IF <<d, k>> \in sw.invoked THEN sw.n ELSE sw.n - 1

\* C8: on a stable ring of three replicas, when every sweep brings an entry
\* that started with no successes at least one new acknowledgment and the
\* queue operations succeed, no entry is left once three sweeps have
\* processed it.
C8_DeletedWithinThreeSweeps ==
    \A d \in Devices, k \in Keys :
        Present(store[d][k]) =>
            /\ SweepsOver(d, k) < Len(ReplicaRing)
            /\ Len(store[d][k].successes) >= SweepsOver(d, k)

C8_Witness ==
    /\ sw.n = 3
    /\ call.ret = "true"
    /\ Len(call.loaded) = 2
    /\ Len(call.attempts) = 1

\* C9: under the fair daemon every update queued on a device is deleted in
\* the end, whatever else is queued on that device.
C9_EveryEntryEventuallyDeleted ==
    \A d \in Devices, k \in Keys :
        (store[d][k].kind = "update") ~> (store[d][k] = NoEntry)

\* C10: once the sweep of a device that was reachable is over, every entry of
\* the device has been processed in that sweep, also when processing another
\* of its entries raised.
C10_EntryErrorsContained ==
    \A d \in Devices, k \in Keys :
        (sw.outcome[d] \in {"ok", "exception"} /\ Present(store[d][k]))
            => <<d, k>> \in sw.invoked

\* C11: a blob that cannot be decoded is never removed or rewritten; the call
\* that meets it raises with no delivery attempt and no queue write, and the
\* sweep of its device is counted as a device failure; no sweep of a device,
\* in any pass, returns normally while the device holds such a blob.
C11_CorruptEntryStaysAndFails ==
    [][/\ \A d \in Devices, k \in Keys :
            store[d][k] = CorruptBlob => store'[d][k] = CorruptBlob
       /\ (CallStep /\ store[call'.device][call'.key] = CorruptBlob) =>
            /\ call'.ret = "raised"
            /\ call'.attempts = <<>>
            /\ call'.qop = "none"
            /\ store' = store
            /\ sw'.pc = "run_once"
            /\ sw'.outcome[call'.device] = "exception"
            /\ stats'.device_failures = stats.device_failures + 1
       /\ \A d \in Devices, k \in Keys :
            sw'.outcome[d] = "ok" => store'[d][k] # CorruptBlob]_vars

C11_Witness ==
    /\ sw.n = 2
    /\ call.caller = "sweep"
    /\ call.ret = "raised"
    /\ Stored = CorruptBlob
    /\ sw.outcome[call.device] = "exception"
    /\ stats.device_failures >= 1

\* C12: a call whose delete or put raises leaves the queue as it was, with
\* the entry and the successes stored before the call, and the exception
\* reaches run_once, which counts a device failure; and whatever the faults,
\* an entry leaves the queue only in a call for its key that returns true
\* with every node resolved in that call in successes.
C12_WriteFailureKeepsEntry ==
    [][/\ (CallStep /\ call'.ret = "raised" /\ call'.update.kind = "update") =>
            /\ QueueOp(call') # "none"
            /\ store' = store
            /\ sw'.pc = "run_once"
            /\ sw'.outcome[call'.device] = "exception"
            /\ stats'.device_failures = stats.device_failures + 1
       /\ \A d \in Devices, k \in Keys :
            (Present(store[d][k]) /\ ~Present(store'[d][k])) =>
                /\ CallStep
                /\ call'.device = d /\ call'.key = k
                /\ call'.ret = "true"
                /\ call'.nodes = ring
                /\ Range(call'.nodes) \subseteq Range(call'.successes)]_vars

C12_Witness ==
    /\ call.caller = "sweep"
    /\ call.update.kind = "update"
    /\ call.ret = "raised"
    /\ call.acks = Range(call.nodes)
    /\ Stored = call.update
    /\ sw.outcome[call.device] = "exception"

\* C13: in a call that makes a delivery attempt, the headers given to
\* object_update hold no user-agent key in any case, however the key is
\* spelled in the stored entry; the other headers are given.
C13_NoUserAgentDelivered ==
    call.attempts # <<>> =>
        /\ call.headers \cap UserAgentKeys = {}
        /\ \A key \in call.update.headers \ UserAgentKeys : Title(key) \in call.headers

C13_Witness ==
    /\ call.attempts # <<>>
    /\ "USER-AGENT" \in call.update.headers
    /\ call.headers = {}

\* no thread is inside a call
WorkersIdle == \A w \in Workers : workers.pc[w] = "idle"

\* the entry the threads work on, as stored
WorkerEntry == store[WorkerDevice][WorkerKey]

\* a node acknowledged and the stored successes do not hold it
AckLost ==
    /\ WorkersIdle
    /\ WorkerEntry.kind = "update"
    /\ ~(workers.acked \subseteq Range(WorkerEntry.successes))

\* a thread deleted the entry and it is stored again
EntryRecreated == workers.deleted /\ WorkerEntry.kind = "update"

\* C14: when the calls for one key are serialized, between calls every node
\* that acknowledged is in the stored successes as long as the entry is
\* stored, and an entry that was deleted is never stored again. (When they
\* are not, both are reachable: C14_Witness.)
C14_SerializedCallsLoseNothing ==
    workers.serial => (~AckLost /\ ~EntryRecreated)

C14_Witness ==
    /\ ~workers.serial
    /\ WorkersIdle
    /\ AckLost
    /\ EntryRecreated

\* C15: when the sweep of a device has just returned without an exception,
\* found_updates = success + failures in the statistics of the pass.
C15_FoundIsSuccessPlusFailures ==
    (sw.pc = "run_once" /\ sw.outcome[sw.device] = "ok")
        => stats.found_updates = stats.success + stats.failures

\* the ids stored in successes for an entry that the ring does not return now
Stale(blob) == Range(blob.successes) \ Range(ring)

\* C16: whatever node list the ring returns at the time of a call, the call
\* attempts delivery to exactly the nodes of that list whose id is not in the
\* stored successes, deletes the entry only when every node of that list is
\* in successes, and, when the entry stays, leaves in it every id stored
\* before, the ids of nodes no longer in the list included.
C16_StaleIdsKeptAndInert ==
    [][LET before == store[call'.device][call'.key]
           after == store'[call'.device][call'.key] IN
       (CallStep /\ call'.update.kind = "update") =>
            /\ call'.nodes = ring
            /\ call'.attempts =
                    SelectSeq(ring, LAMBDA id : id \notin Range(before.successes))
            /\ after = NoEntry =>
                    \A id \in Range(ring) :
                        id \in Range(before.successes) \/ id \in call'.acks
            /\ after # NoEntry =>
                    /\ Stale(before) \subseteq Range(after.successes)
                    /\ SelectSeq(after.successes, LAMBDA id : id \in Stale(before))
                         = SelectSeq(before.successes, LAMBDA id : id \in Stale(before))]_vars

C16_Witness ==
    /\ LoadedCall
    /\ call.nodes = <<3, 4>>
    /\ Range(call.loaded) \ Range(call.nodes) # {}
    /\ call.attempts = <<3, 4>>
    /\ call.qop = "put"
    /\ Range(call.loaded) \subseteq Range(Stored.successes)

\* the devices run_once has come to in the running pass
Covered == {d \in Devices : sw.outcome[d] # "none"}

\* C17: every counter the updater keeps counts the latest pass only: the
\* statistics count the entries found and the devices covered in it, and
\* self.successes and self.failures count no more calls than it has made.
C17_CountersReflectLatestSweep ==
    /\ stats.found_updates = Cardinality(sw.invoked)
    /\ stats.success + stats.failures <= stats.found_updates
    /\ stats.device_success + stats.device_failures = Cardinality(Covered)
    /\ counters.successes + counters.failures <= Cardinality(sw.invoked)

\* C18: a sweep that follows another begins exactly Interval after the
\* begin of that one when that one took less than Interval, and at the
\* moment that one ended when it took Interval or more; and run_once hands
\* back to the loop only when it has come to every device, failed or not.
C18_NextSweepOnTheInterval ==
    [][/\ (sw.pc = "sleep" /\ sw'.pc = "run_once" /\ sw.n >= 1) =>
            sw'.gap = IF sw.elapsed < Interval THEN Interval ELSE sw.elapsed
       /\ (sw.pc # "sleep" /\ sw'.pc = "sleep") =>
            /\ sw'.elapsed = sw.clock
            /\ \A d \in Devices : sw.outcome[d] # "none"]_vars

C18_Witness ==
    /\ sw.pc = "run_once"
    /\ sw.n = 3
    /\ sw.elapsed = MaxElapsed
    /\ sw.gap = MaxElapsed
    /\ \E d \in Devices : store[d][1] = CorruptBlob

\* the ids that were in the entry when it was queued or whose node has
\* acknowledged the update to some call
Vouched == workers.queued \cup workers.acked

\* C19: a call adds to successes only ids of nodes that acknowledged a
\* delivery it made; so every id in the stored successes was in the entry
\* when it was queued or belongs to a node that acknowledged, and an entry
\* is deleted only when that is so for every resolved node. This holds
\* whether or not the calls for the key are serialized.
C19_SuccessesAreAcknowledged ==
    /\ \A w \in Workers :
        LET c == workers.frame[w] IN
        Range(c.successes) \ Range(c.loaded) \subseteq c.acks \cap Range(c.attempts)
    /\ WorkerEntry.kind = "update" => Range(WorkerEntry.successes) \subseteq Vouched
    /\ workers.deleted => Range(ring) \subseteq Vouched

C19_Witness ==
    /\ workers.deleted
    /\ workers.queued = {3}
    /\ workers.acked = Range(ring) \ {3}
    /\ \E w \in Workers : workers.frame[w].qop = "put"

\* C20: a call that saves its entry stores the record it loaded with the
\* successes key set and nothing else changed: account, container and obj,
\* op, and the headers as they were queued, user-agent included.
C20_SaveChangesSuccessesOnly ==
    [][LET before == store[call'.device][call'.key]
           after == store'[call'.device][call'.key] IN
       (CallStep /\ call'.qop = "put") =>
            /\ after.kind = "update"
            /\ after.path = before.path
            /\ after.op = before.op
            /\ after.headers = before.headers
            /\ after.headers \cap UserAgentKeys # {}
            /\ after.successes = call'.successes]_vars

C20_Witness ==
    /\ call.qop = "put"
    /\ Stored.op = "DELETE"
    /\ Stored.headers = {"User-Agent", "x-timestamp"}
    /\ call.headers = {"X-Timestamp"}
    /\ Stored.has_successes

====
